---- MODULE Spec2Model ----
(***************************************************************************)
(* Oracle Counter (src/main.py): a numpad digit buffer fed by a global     *)
(* keyboard listener thread, rendered by a main window and an optional     *)
(* overlay, flushed as synthetic keystrokes, plus a flat JSON preference   *)
(* store.                                                                  *)
(*                                                                         *)
(* Texts are sequences of one-character strings.  Python values and JSON   *)
(* tokens are distinct strings, so that json.load / json.dump are real     *)
(* conversions.                                                            *)
(***************************************************************************)
EXTENDS Integers, Sequences, FiniteSets, TLC

VARIABLES
    \* ---- MainWindow / OverlayWindow state ----
    logged_numbers,   \* MainWindow.logged_numbers: list of digit characters
    display_label,    \* text of MainWindow.display_label
    overlay,          \* MainWindow.overlay: "None" or "window"
    label,            \* text of OverlayWindow.label
    style,            \* style sheet of OverlayWindow.label (border, background, colour, font)
    click_through,    \* whether Qt.WindowTransparentForInput is set on the overlay
    win,              \* the overlay window's position on the screen
    drag_pos,         \* OverlayWindow.drag_pos
    config,           \* MainWindow.config, shared with the overlay (a Python value)
    file,             \* config.json on disk
    \* ---- the two threads ----
    pc,               \* pc[t]: position of thread t ("listener", "gui") in its handler
    ret,              \* ret[t]: where update_display returns to in thread t
    text,             \* text[t]: the local variable `text` / `current_text` of thread t
    in_try,           \* whether the listener is inside on_key_press's try block
    key,              \* the key event the listener is handling
    \* ---- observation of the run ----
    typed,            \* texts handed to Controller.type during the current key event
    found,            \* buffer contents read by send_numbers' test in the current key event
    pressed,          \* numpad digits received since the buffer was last emptied
    gui_op,           \* the handler the GUI thread is running
    pos,              \* the argument of the set_position the GUI thread is running
    wrote,            \* how the try block of the last save_config of a handler ended
    stale,            \* the listener is inside update_text of a window closed since
    \* ---- preference store exercised on its own ----
    r,                \* the value returned by the last load_config()
    r2,               \* the value returned by load_config() after save_config(r)
    saved,            \* what save_config returned, and how its try block ended
    raised,           \* whether load_config / save_config let an exception escape
    ppc               \* position in the load / save / load sequence

vars == << logged_numbers, display_label, overlay, label, style, click_through,
           win, drag_pos, config, file, pc, ret, text, in_try, key, typed, found,
           pressed, gui_op, pos, wrote, stale, r, r2, saved, raised, ppc >>

appVars == << logged_numbers, display_label, overlay, label, style, click_through,
              win, drag_pos, config, pc, ret, text, in_try, key, typed, found,
              pressed, gui_op, pos, wrote, stale >>

\* the overlay window's geometry and drag state, and the last save's outcome
geoVars == << win, drag_pos, wrote >>

prefVars == << r, r2, saved, raised, ppc >>

-----------------------------------------------------------------------------
(* Bounds *)

\* how many numpad digits may arrive in a row before the buffer is emptied
MaxPressed == 8

\* the buffer's capacity (len(self.logged_numbers) < 7)
MaxNumbers == 7

\* how many numpad digits may arrive in a row while the settings handlers
\* are exercised
MaxSettingsDigits == 2

-----------------------------------------------------------------------------
(* Preference store: load_config / save_config *)

Absent == "<absent>"

RecognizedKeys == {"overlay_color", "overlay_x", "overlay_y", "overlay_locked"}

ExtraKeys == {"extra"}

AllKeys == RecognizedKeys \cup ExtraKeys

\* JSON tokens that occur as member values in the files considered
JsonTokens == {"null", "true", "false", "\"#ffff00\"", "\"#00ff00\"", "40"}

\* json.load's conversion of a JSON token to a Python value
PyOfJson(tok) ==
    CASE tok = "null" -> "None"
      [] tok = "true" -> "True"
      [] tok = "false" -> "False"
      [] tok = "\"#ffff00\"" -> "#ffff00"
      [] tok = "\"#00ff00\"" -> "#00ff00"
      [] tok = "40" -> "int 40"
      [] tok = "1420" -> "int 1420"
      [] tok = "1400" -> "int 1400"
      [] tok = "720" -> "int 720"
      [] tok = "700" -> "int 700"
      [] tok = "20" -> "int 20"
      [] tok = "10" -> "int 10"
      [] tok = "30" -> "int 30"
      [] tok = "0" -> "int 0"
      [] OTHER -> Absent

\* a dump that writes the Python value's own spelling (True, None)
JsonOfPyRepr(v) == v

\* json.dump's conversion of a Python value to a JSON token
JsonOfPy(v) ==
    CASE v = "None" -> "null"
      [] v = "True" -> "true"
      [] v = "False" -> "false"
      [] v = "#ffff00" -> "\"#ffff00\""
      [] v = "#00ff00" -> "\"#00ff00\""
      [] v = "int 40" -> "40"
      [] v = "int 1420" -> "1420"
      [] v = "int 1400" -> "1400"
      [] v = "int 720" -> "720"
      [] v = "int 700" -> "700"
      [] v = "int 20" -> "20"
      [] v = "int 10" -> "10"
      [] v = "int 30" -> "30"
      [] v = "int 0" -> "0"
      [] OTHER -> Absent

\* A document or a Python value: kind "object" has members obj[k] # Absent;
\* kinds "array" and "string" carry in `items` the recognized key names that
\* occur in them (as elements, as substrings).
NoMembers == [k \in AllKeys |-> Absent]

Doc(kind, items, obj) == [kind |-> kind, items |-> items, obj |-> obj]

DEFAULT_CONFIG ==
    Doc("object", {},
        [k \in AllKeys |->
            CASE k = "overlay_color" -> "#ffff00"
              [] k = "overlay_x" -> "None"
              [] k = "overlay_y" -> "None"
              [] k = "overlay_locked" -> "False"
              [] OTHER -> Absent])

\* json.load(f): the Python value of a well-formed document
JsonLoad(f) ==
    Doc(f.kind, f.items,
        [k \in AllKeys |-> IF f.obj[k] = Absent THEN Absent ELSE PyOfJson(f.obj[k])])

\* json.dump(config, f): the document written for a Python value
JsonDump(v) ==
    Doc(v.kind, v.items,
        [k \in AllKeys |-> IF v.obj[k] = Absent THEN Absent ELSE JsonOfPy(v.obj[k])])

\* `key in config`; raises TypeError on None, bool and numbers
InRaises(v) == v.kind = "scalar"

KeyIn(k, v) ==
    IF v.kind = "object" THEN v.obj[k] # Absent ELSE k \in v.items

\* `config[key] = default_value`; raises TypeError on lists and strings
SetItemRaises(v) == v.kind # "object"

\* a backfill that assigns every default, stored or not
BackfillAll(v) ==
    IF InRaises(v) \/ SetItemRaises(v) THEN [exc |-> TRUE, val |-> v]
    ELSE [exc |-> FALSE,
          val |-> Doc(v.kind, v.items,
                      [k \in AllKeys |->
                          IF k \in RecognizedKeys
                          THEN DEFAULT_CONFIG.obj[k] ELSE v.obj[k]])]

\* the backfill loop of load_config (lines 37-39): [exc, val]
Backfill(v) ==
    IF InRaises(v) THEN [exc |-> TRUE, val |-> v]
    ELSE IF \A k \in RecognizedKeys : KeyIn(k, v) THEN [exc |-> FALSE, val |-> v]
    ELSE IF SetItemRaises(v) THEN [exc |-> TRUE, val |-> v]
    ELSE [exc |-> FALSE,
          val |-> Doc(v.kind, v.items,
                      [k \in AllKeys |->
                          IF k \in RecognizedKeys /\ v.obj[k] = Absent
                          THEN DEFAULT_CONFIG.obj[k] ELSE v.obj[k]])]

\* the body of load_config's try block (lines 33-40): [exc, returned, val]
LoadTry(f) ==
    IF f.kind = "absent" THEN [exc |-> FALSE, returned |-> FALSE, val |-> DEFAULT_CONFIG]
    ELSE IF f.kind \in {"unreadable", "malformed"}
         THEN [exc |-> TRUE, returned |-> FALSE, val |-> DEFAULT_CONFIG]
    ELSE LET b == Backfill(JsonLoad(f))
         IN  [exc |-> b.exc, returned |-> ~b.exc, val |-> b.val]

\* the bare `except: pass` of load_config (lines 41-42)
LoadExcept(t) == [t EXCEPT !.exc = FALSE]

\* load_config(): [exc, val]
load_config(f) ==
    LET t == LoadExcept(LoadTry(f))
    IN  [exc |-> t.exc, val |-> IF t.returned /\ ~t.exc THEN t.val ELSE DEFAULT_CONFIG]

\* the ways save_config's try block can end: the write succeeds, open() fails
\* (the file is untouched), or the write fails after open() truncated the file
SaveOutcomes == {"ok", "open_fails", "write_fails"}

\* the body of save_config's try block (lines 47-49) ending in outcome o:
\* [exc, file, ret]
SaveTry(f, v, o) ==
    CASE o = "ok" ->
            [exc |-> FALSE, ret |-> "True",
             file |-> IF f.kind = "unreadable" THEN f ELSE JsonDump(v)]
      [] o = "open_fails" -> [exc |-> TRUE, ret |-> "none", file |-> f]
      [] o = "write_fails" ->
            [exc |-> TRUE, ret |-> "none", file |-> Doc("malformed", {}, NoMembers)]

\* the bare `except: return False` of save_config (lines 50-51)
SaveExcept(t) == IF t.exc THEN [t EXCEPT !.exc = FALSE, !.ret = "False"] ELSE t

\* save_config(config): [exc, file, ret]
save_config(f, v, o) == SaveExcept(SaveTry(f, v, o))

-----------------------------------------------------------------------------
(* Texts *)

Whitespace == {" ", "\n"}

\* sep.join(xs) for a list xs of texts
RECURSIVE Join(_, _)
Join(sep, xs) ==
    IF xs = <<>> THEN <<>>
    ELSE IF Len(xs) = 1 THEN xs[1]
    ELSE xs[1] \o sep \o Join(sep, Tail(xs))

\* the elements of logged_numbers as texts of one character each
AsTexts(numbers) == [i \in 1..Len(numbers) |-> <<numbers[i]>>]

\* a rendering that joins without the separator
RenderUnspaced(numbers) == Join(<<>>, AsTexts(numbers))

\* ' '.join(self.logged_numbers)
render_spaced(numbers) == Join(<<" ">>, AsTexts(numbers))

\* ''.join(self.logged_numbers)
render_concatenated(numbers) == Join(<<>>, AsTexts(numbers))

\* text.split(): the maximal runs of non-whitespace characters
RECURSIVE SplitFrom(_, _, _)
SplitFrom(t, i, cur) ==
    IF i > Len(t) THEN (IF cur = <<>> THEN <<>> ELSE <<cur>>)
    ELSE IF t[i] \in Whitespace
         THEN (IF cur = <<>> THEN <<>> ELSE <<cur>>) \o SplitFrom(t, i + 1, <<>>)
         ELSE SplitFrom(t, i + 1, Append(cur, t[i]))

Split(t) == SplitFrom(t, 1, <<>>)

\* bool(text.strip())
StripNonEmpty(t) == \E i \in 1..Len(t) : t[i] \notin Whitespace

StartsWith(t, prefix) ==
    /\ Len(t) >= Len(prefix)
    /\ \A i \in 1..Len(prefix) : t[i] = prefix[i]

OverlayWord == <<"O", "v", "e", "r", "l", "a", "y">>

\* "Overlay Position\n(max 7 numbers)"
HintText ==
    OverlayWord \o <<" ", "P", "o", "s", "i", "t", "i", "o", "n", "\n",
                     "(", "m", "a", "x", " ", "7", " ",
                     "n", "u", "m", "b", "e", "r", "s", ")">>

\* Python truthiness of a stored value
Truthy(v) == v \notin {"None", "False", Absent}

\* Python's `not v`
PyNot(v) == IF Truthy(v) THEN "False" ELSE "True"

\* self.config.get('overlay_locked', False), as a truth value
IsLocked(cfg) == Truthy(cfg.obj["overlay_locked"])

-----------------------------------------------------------------------------
(* OverlayWindow *)

\* the text OverlayWindow.update_text gives the label (lines 136-150)
UpdateTextLabel(t, cfg) ==
    LET numbers == Split(t)
        t1 == IF Len(numbers) > MaxNumbers
              THEN Join(<<" ">>, SubSeq(numbers, 1, MaxNumbers))
              ELSE t
    IN  IF StripNonEmpty(t1) THEN t1
        ELSE IF ~IsLocked(cfg) THEN HintText
        ELSE <<>>

\* the style sheet OverlayWindow.update_overlay_style computes (lines 84-124)
OverlayStyle(lbl, cfg) ==
    LET has_content == StripNonEmpty(lbl) /\ ~StartsWith(lbl, OverlayWord)
        is_locked == IsLocked(cfg)
    IN  IF has_content
        THEN [border |-> IF is_locked THEN "none" ELSE "dashed",
              bg |-> IF is_locked THEN "transparent" ELSE "tinted",
              color |-> cfg.obj["overlay_color"],
              font |-> "36px"]
        ELSE IF is_locked
        THEN [border |-> "none", bg |-> "transparent", color |-> "transparent",
              font |-> "16px"]
        ELSE [border |-> "dashed", bg |-> "tinted", color |-> "#ff4757",
              font |-> "16px"]

\* the label and style of a window that does not exist
NoLabel == <<>>

NoStyle == [border |-> "none", bg |-> "none", color |-> "none", font |-> "none"]

\* the Python int a coordinate is stored as (self.x(), self.y(), x, y)
PyInt(n) ==
    CASE n = 0 -> "int 0"
      [] n = 10 -> "int 10"
      [] n = 20 -> "int 20"
      [] n = 30 -> "int 30"
      [] n = 40 -> "int 40"
      [] n = 700 -> "int 700"
      [] n = 720 -> "int 720"
      [] n = 1400 -> "int 1400"
      [] n = 1420 -> "int 1420"

\* the coordinate a stored Python int stands for (QWidget.move's argument)
IntOfPy(v) ==
    CASE v = "int 0" -> 0
      [] v = "int 10" -> 10
      [] v = "int 20" -> 20
      [] v = "int 30" -> 30
      [] v = "int 40" -> 40
      [] v = "int 700" -> 700
      [] v = "int 720" -> 720
      [] v = "int 1400" -> 1400
      [] v = "int 1420" -> 1420

\* QApplication.primaryScreen().geometry().width()
ScreenWidth == 1920

\* the position of a window that does not exist
NoWin == << -1, -1 >>

\* OverlayWindow.set_position (lines 126-132): the stored position if both
\* coordinates are stored, else centred on the screen
InitialPosition(cfg) ==
    IF cfg.obj["overlay_x"] # "None" /\ cfg.obj["overlay_y"] # "None"
    THEN << IntOfPy(cfg.obj["overlay_x"]), IntOfPy(cfg.obj["overlay_y"]) >>
    ELSE << (ScreenWidth - 480) \div 2, 30 >>

\* the x of MainWindow.set_position(pos) (lines 704-713): "left", "right",
\* anything else is the middle
PresetX(p) ==
    IF p = "left" THEN 20
    ELSE IF p = "right" THEN ScreenWidth - 480 - 20
    ELSE (ScreenWidth - 480) \div 2

\* self.config["overlay_x"] = x; self.config["overlay_y"] = y
WithPosition(cfg, p) ==
    [cfg EXCEPT !.obj["overlay_x"] = PyInt(p[1]), !.obj["overlay_y"] = PyInt(p[2])]

\* self.config["overlay_color"] = c
WithColor(cfg, c) == [cfg EXCEPT !.obj["overlay_color"] = c]

\* drag_pos: None (set is FALSE) or the QPoint p
NoDrag == [set |-> FALSE, p |-> << 0, 0 >>]

DragAt(p) == [set |-> TRUE, p |-> p]

\* `and self.drag_pos` (line 185): None is false, and so is a null QPoint
DragTruthy(d) == d.set /\ d.p # << 0, 0 >>

-----------------------------------------------------------------------------
(* Key events *)

NUMPAD_MAPPING ==
    [vk \in 96..105 |->
        CASE vk = 96 -> "0" [] vk = 97 -> "1" [] vk = 98 -> "2" [] vk = 99 -> "3"
          [] vk = 100 -> "4" [] vk = 101 -> "5" [] vk = 102 -> "6" [] vk = 103 -> "7"
          [] vk = 104 -> "8" [] vk = 105 -> "9"]

NoVk == -1

\* a pynput key: a KeyCode (has_vk, vk possibly None), a Key member, or None
KeyCode(vk) == [has_vk |-> TRUE, vk |-> vk, name |-> "keycode"]

KeyMember(name) == [has_vk |-> FALSE, vk |-> NoVk, name |-> name]

KeyEnter == KeyMember("enter")

KeyBackspace == KeyMember("backspace")

\* the key events offered to the listener: two numpad digits, a top-row digit
\* (vk 48 + 9), a KeyCode without vk, Enter, Backspace, another Key member
DigitKeys == {KeyCode(96), KeyCode(105)}

OtherKeys == {KeyCode(57), KeyCode(NoVk), KeyMember("shift")}

KeyEvents == DigitKeys \cup OtherKeys \cup {KeyEnter, KeyBackspace}

\* the key events offered while the two threads interleave: one numpad digit,
\* a top-row digit, Enter, Backspace
RaceKeyEvents == {KeyCode(105), KeyCode(57), KeyEnter, KeyBackspace}

\* hasattr(key, 'vk') and key.vk in NUMPAD_MAPPING (line 634)
IsNumpadDigit(k) == k.has_vk /\ k.vk \in DOMAIN NUMPAD_MAPPING

\* a capacity test that is off by one
HasRoomOffByOne(numbers) == Len(numbers) <= MaxNumbers

\* len(self.logged_numbers) < 7 (line 636)
HasRoom(numbers) == Len(numbers) < MaxNumbers

\* a dispatch whose second branch is a plain else
AfterTryElse(k) ==
    IF k = KeyEnter THEN "send_if" ELSE "clear"

\* where on_key_press continues after the try statement (lines 642-645)
AfterTry(k) ==
    IF k = KeyEnter THEN "send_if"
    ELSE IF k = KeyBackspace THEN "clear"
    ELSE "idle"

-----------------------------------------------------------------------------
(* The two threads: pynput's listener thread runs on_key_press, one key at *)
(* a time; the Qt event loop runs the button handlers, one at a time.  A   *)
(* step is one access to state the threads share.                          *)

Threads == {"listener", "gui"}

\* the value of `key` while no key is being handled
NoKey == KeyMember("none")

\* thread t goes on at `where`; a handler that ends forgets what it held
Goto(t, where) ==
    /\ pc' = [pc EXCEPT ![t] = where]
    /\ IF where = "idle" /\ t = "listener"
       THEN key' = NoKey /\ typed' = <<>> /\ found' = <<>>
       ELSE UNCHANGED << key, typed, found >>
    /\ IF where = "idle" /\ t = "gui"
       THEN gui_op' = "none" /\ pos' = "none"
       ELSE UNCHANGED << gui_op, pos >>

DropText(t) == text' = [text EXCEPT ![t] = <<>>]

\* self.logged_numbers.append(NUMPAD_MAPPING[key.vk]) (line 637)
AppendNumber(numbers, k) == Append(numbers, NUMPAD_MAPPING[k.vk])

\* a clear that removes only the last digit
ClearedPop(numbers) ==
    IF numbers = <<>> THEN <<>> ELSE SubSeq(numbers, 1, Len(numbers) - 1)

\* self.logged_numbers.clear() (line 664)
Cleared(numbers) == <<>>

\* the listener calls on_key_press(k)
KeyPress(k) ==
    /\ pc["listener"] = "idle"
    /\ k # NoKey
    /\ IsNumpadDigit(k) => Len(pressed) < MaxPressed
    /\ key' = k
    /\ in_try' = TRUE
    /\ pc' = [pc EXCEPT !["listener"] = "try"]
    /\ UNCHANGED << logged_numbers, display_label, overlay, label, style,
                    click_through, config, file, ret, text, typed, found,
                    pressed, gui_op, pos, stale, geoVars, prefVars >>

\* lines 633-636: the classification and the capacity test
L_Try ==
    /\ pc["listener"] = "try"
    /\ IF IsNumpadDigit(key) /\ HasRoom(logged_numbers)
       THEN /\ Goto("listener", "append")
            /\ UNCHANGED << in_try, pressed >>
       ELSE /\ Goto("listener", AfterTry(key))
            /\ in_try' = FALSE
            /\ pressed' = IF IsNumpadDigit(key)
                          THEN Append(pressed, NUMPAD_MAPPING[key.vk])
                          ELSE pressed
    /\ UNCHANGED << logged_numbers, display_label, overlay, label, style,
                    click_through, config, file, ret, text, stale, geoVars, prefVars >>

\* line 637, then the call of update_display (line 638)
L_Append ==
    /\ pc["listener"] = "append"
    /\ logged_numbers' = AppendNumber(logged_numbers, key)
    /\ pressed' = Append(pressed, NUMPAD_MAPPING[key.vk])
    /\ Goto("listener", "ud_join")
    /\ ret' = [ret EXCEPT !["listener"] = AfterTry(key)]
    /\ UNCHANGED << display_label, overlay, label, style, click_through, config,
                    file, text, in_try, stale, geoVars, prefVars >>

\* a send_numbers without its emptiness test
SendsAlways(numbers) == TRUE

\* send_numbers: `if self.logged_numbers:` (line 658)
SendsNumbers(numbers) == numbers # <<>>

L_SendIf ==
    /\ pc["listener"] = "send_if"
    /\ IF SendsNumbers(logged_numbers)
       THEN /\ found' = logged_numbers
            /\ pc' = [pc EXCEPT !["listener"] = "send_join"]
            /\ UNCHANGED << key, typed, gui_op, pos >>
       ELSE Goto("listener", "idle")
    /\ UNCHANGED << logged_numbers, display_label, overlay, label, style,
                    click_through, config, file, ret, text, in_try, pressed,
                    stale, geoVars, prefVars >>

\* send_numbers: text = ''.join(self.logged_numbers) (line 659)
L_SendJoin ==
    /\ pc["listener"] = "send_join"
    /\ text' = [text EXCEPT !["listener"] = render_concatenated(logged_numbers)]
    /\ Goto("listener", "send_type")
    /\ UNCHANGED << logged_numbers, display_label, overlay, label, style,
                    click_through, config, file, ret, in_try, pressed, stale,
                    geoVars, prefVars >>

\* a send_numbers that does not clear after typing
AfterTypeNoClear == "idle"

\* where send_numbers continues after Controller.type (line 661)
AfterType == "clear"

\* send_numbers: self.controller.type(text) (line 660)
L_SendType ==
    /\ pc["listener"] = "send_type"
    /\ typed' = Append(typed, text["listener"])
    /\ DropText("listener")
    /\ pc' = [pc EXCEPT !["listener"] = AfterType]
    /\ UNCHANGED << logged_numbers, display_label, overlay, label, style,
                    click_through, config, file, ret, in_try, key, found,
                    pressed, gui_op, pos, stale, geoVars, prefVars >>

\* clear_numbers: self.logged_numbers.clear(), then update_display (lines 664-665)
Clear(t) ==
    /\ pc[t] = "clear"
    /\ logged_numbers' = Cleared(logged_numbers)
    /\ pressed' = <<>>
    /\ Goto(t, "ud_join")
    /\ ret' = [ret EXCEPT ![t] = "idle"]
    /\ UNCHANGED << display_label, overlay, label, style, click_through, config,
                    file, text, in_try, stale, geoVars, prefVars >>

\* update_display: text = ' '.join(self.logged_numbers) (line 652)
UD_Join(t) ==
    /\ pc[t] = "ud_join"
    /\ text' = [text EXCEPT ![t] = render_spaced(logged_numbers)]
    /\ Goto(t, "ud_label")
    /\ UNCHANGED << logged_numbers, display_label, overlay, label, style,
                    click_through, config, file, ret, in_try, pressed, stale,
                    geoVars, prefVars >>

\* update_display: self.display_label.setText(text) (line 653)
UD_Label(t) ==
    /\ pc[t] = "ud_label"
    /\ display_label' = text[t]
    /\ Goto(t, "ud_if")
    /\ UNCHANGED << logged_numbers, overlay, label, style, click_through, config,
                    file, ret, text, in_try, pressed, stale, geoVars, prefVars >>

\* thread t leaves on_key_press's try block, if it is the listener
LeaveTry(t) == in_try' = IF t = "listener" THEN FALSE ELSE in_try

\* update_display: `if self.overlay:` (line 654)
UD_If(t) ==
    /\ pc[t] = "ud_if"
    /\ IF overlay # "None"
       THEN /\ Goto(t, "ud_call")
            /\ UNCHANGED << text, in_try >>
       ELSE /\ Goto(t, ret[t])
            /\ DropText(t)
            /\ LeaveTry(t)
    /\ UNCHANGED << logged_numbers, display_label, overlay, label, style,
                    click_through, config, file, ret, pressed, stale, geoVars, prefVars >>

\* where an exception raised in thread t continues: the try block's
\* `except: pass` (lines 639-640), or out of the callback, which stops the thread
AfterException(t) ==
    IF t = "listener" /\ in_try THEN AfterTry(key) ELSE "stopped"

\* self.overlay.update_text(text), up to the label's setText (lines 655, 677,
\* 696, 136-150); self.overlay is read again and may have become None
UD_Call(t) ==
    /\ pc[t] = "ud_call"
    /\ IF overlay = "None"
       THEN /\ Goto(t, AfterException(t))
            /\ LeaveTry(t)
            /\ UNCHANGED << label, stale >>
       ELSE /\ label' = UpdateTextLabel(text[t], config)
            /\ stale' = IF t = "listener" THEN FALSE ELSE stale
            /\ Goto(t, "ov_style")
            /\ UNCHANGED in_try
    /\ DropText(t)
    /\ UNCHANGED << logged_numbers, display_label, overlay, style, click_through,
                    config, file, ret, pressed, geoVars, prefVars >>

\* update_text: self.update_overlay_style() (line 152); a window closed in the
\* meantime is restyled without effect on the one shown
OV_Style(t) ==
    /\ pc[t] = "ov_style"
    /\ style' = IF t = "listener" /\ stale THEN style ELSE OverlayStyle(label, config)
    /\ stale' = IF t = "listener" THEN FALSE ELSE stale
    /\ Goto(t, ret[t])
    /\ LeaveTry(t)
    /\ UNCHANGED << logged_numbers, display_label, overlay, label, click_through,
                    config, file, ret, text, pressed, geoVars, prefVars >>

\* the GUI thread enters handler `op` at `where`
Enter(op, where) ==
    /\ pc["gui"] = "idle"
    /\ pc' = [pc EXCEPT !["gui"] = where]
    /\ gui_op' = op
    /\ pos' = "none"

\* the Clear button: clicked.connect(self.clear_numbers) (line 441)
ClearButton ==
    /\ Enter("clear_numbers", "clear")
    /\ UNCHANGED << logged_numbers, display_label, overlay, label, style,
                    click_through, config, file, ret, text, in_try, key, typed,
                    found, pressed, stale, geoVars, prefVars >>

\* toggle_overlay with an overlay: close it (lines 668-671)
ToggleOverlayOff ==
    /\ pc["gui"] = "idle"
    /\ overlay # "None"
    /\ overlay' = "None"
    /\ label' = NoLabel
    /\ style' = NoStyle
    /\ click_through' = FALSE
    /\ win' = NoWin
    /\ drag_pos' = NoDrag
    /\ stale' = (stale \/ pc["listener"] = "ov_style")
    /\ UNCHANGED << logged_numbers, display_label, config, file, pc, ret, text,
                    in_try, key, typed, found, pressed, gui_op, pos, wrote,
                    prefVars >>

\* a set_click_through that always takes its else branch
ClickThroughOff(enabled) == FALSE

\* set_click_through(enabled): the window flag (lines 159-175)
ClickThrough(enabled) == Truthy(enabled)

\* toggle_overlay without one: OverlayWindow(self.config), whose setup_ui
\* calls update_text(""), is assigned to self.overlay; set_click_through sets
\* the window flags (lines 673-674, 55-80, 159-177)
ToggleOverlayOn ==
    /\ Enter("toggle_overlay", "sct_style")
    /\ overlay = "None"
    /\ overlay' = "window"
    /\ label' = UpdateTextLabel(<<>>, config)
    /\ style' = OverlayStyle(label', config)
    /\ click_through' = ClickThrough(config.obj["overlay_locked"])
    /\ win' = InitialPosition(config)
    /\ drag_pos' = NoDrag
    /\ ret' = [ret EXCEPT !["gui"] = "idle"]
    /\ UNCHANGED << logged_numbers, display_label, config, file, text, in_try, key,
                    typed, found, pressed, wrote, stale, prefVars >>

\* set_click_through: self.update_overlay_style() (line 178)
SCT_Style ==
    /\ pc["gui"] = "sct_style"
    /\ style' = OverlayStyle(label, config)
    /\ Goto("gui", "t_join")
    /\ UNCHANGED << logged_numbers, display_label, overlay, label, click_through,
                    config, file, ret, text, in_try, pressed, stale, geoVars, prefVars >>

\* current_text = ' '.join(self.logged_numbers) (lines 676, 695)
T_Join ==
    /\ pc["gui"] = "t_join"
    /\ text' = [text EXCEPT !["gui"] = render_spaced(logged_numbers)]
    /\ Goto("gui", "ud_call")
    /\ UNCHANGED << logged_numbers, display_label, overlay, label, style,
                    click_through, config, file, ret, in_try, pressed, stale,
                    geoVars, prefVars >>

\* self.config["overlay_locked"] = not self.config["overlay_locked"] (line 684)
FlipLock(cfg) ==
    [cfg EXCEPT !.obj["overlay_locked"] = PyNot(cfg.obj["overlay_locked"])]

\* toggle_lock up to set_click_through's window flags (lines 684-693)
ToggleLock ==
    /\ config' = FlipLock(config)
    /\ IF overlay # "None"
       THEN /\ click_through' = ClickThrough(config'.obj["overlay_locked"])
            /\ Enter("toggle_lock", "sct_style")
            /\ ret' = [ret EXCEPT !["gui"] = "tl_save"]
       ELSE /\ Enter("toggle_lock", "tl_save")
            /\ UNCHANGED << click_through, ret >>
    /\ UNCHANGED << logged_numbers, display_label, overlay, label, style, file,
                    text, in_try, key, typed, found, pressed, stale, geoVars, prefVars >>

\* a handler's closing save_config(self.config), its try block ending in o
Saves(cfg, o) ==
    /\ file' = save_config(file, cfg, o).file
    /\ wrote' = o

\* a toggle_lock that ends without saving
TL_NoSave ==
    /\ pc["gui"] = "tl_save"
    /\ Goto("gui", "idle")
    /\ UNCHANGED << logged_numbers, display_label, overlay, label, style,
                    click_through, config, file, ret, text, in_try, pressed, stale,
                    geoVars, prefVars >>

\* toggle_lock: save_config(self.config) (line 699)
TL_Save ==
    /\ pc["gui"] = "tl_save"
    /\ \E o \in SaveOutcomes : Saves(config, o)
    /\ Goto("gui", "idle")
    /\ UNCHANGED << logged_numbers, display_label, overlay, label, style,
                    click_through, win, drag_pos, config, ret, text, in_try,
                    pressed, stale, prefVars >>

-----------------------------------------------------------------------------
(* The settings handlers of the GUI thread: colour, position presets, and  *)
(* dragging the overlay.  Each runs from start to end on the GUI thread.   *)

\* the colours QColorDialog.getColor() may return
Colors == {"#00ff00", "#ffff00"}

\* self.overlay.update_color(c) when there is an overlay (lines 154-156,
\* 739-740, 760-761): the shared config already holds c
UpdateColor(cfg) ==
    style' = IF overlay # "None" THEN OverlayStyle(label, cfg) ELSE style

\* pick_color (lines 722-743): the dialog returns the colour c, valid or not
PickColor(c, valid) ==
    /\ pc["gui"] = "idle"
    /\ IF valid
       THEN /\ config' = WithColor(config, c)
            /\ UpdateColor(config')
            /\ \E o \in SaveOutcomes : Saves(config', o)
       ELSE UNCHANGED << config, style, file, wrote >>
    /\ UNCHANGED << logged_numbers, display_label, overlay, label, click_through,
                    win, drag_pos, pc, ret, text, in_try, key, typed, found,
                    pressed, gui_op, pos, stale, prefVars >>

\* reset_default (lines 745-767)
ResetDefault ==
    /\ pc["gui"] = "idle"
    /\ config' = WithColor(config, DEFAULT_CONFIG.obj["overlay_color"])
    /\ UpdateColor(config')
    /\ \E o \in SaveOutcomes : Saves(config', o)
    /\ UNCHANGED << logged_numbers, display_label, overlay, label, click_through,
                    win, drag_pos, pc, ret, text, in_try, key, typed, found,
                    pressed, gui_op, pos, stale, prefVars >>

\* the arguments the three position buttons pass (lines 474-476)
Presets == {"left", "mid", "right"}

\* a position button calls set_position(p)
SetPositionButton(p) ==
    /\ pc["gui"] = "idle"
    /\ pc' = [pc EXCEPT !["gui"] = "sp_if"]
    /\ gui_op' = "set_position"
    /\ pos' = p
    /\ UNCHANGED << logged_numbers, display_label, overlay, label, style,
                    click_through, config, file, ret, text, in_try, key, typed,
                    found, pressed, stale, geoVars, prefVars >>

\* a set_position that does not look for the overlay
HasOverlayAlways(o) == TRUE

\* set_position: `if not self.overlay: return` (lines 702-703)
HasOverlay(o) == o # "None"

\* set_position from its test to its end (lines 702-720)
SP_If ==
    /\ pc["gui"] = "sp_if"
    /\ IF HasOverlay(overlay)
       THEN /\ win' = << PresetX(pos), 30 >>
            /\ config' = WithPosition(config, win')
            /\ \E o \in SaveOutcomes : Saves(config', o)
       ELSE UNCHANGED << win, config, file, wrote >>
    /\ Goto("gui", "idle")
    /\ UNCHANGED << logged_numbers, display_label, overlay, label, style,
                    click_through, drag_pos, ret, text, in_try, pressed, stale,
                    prefVars >>

\* where the cursor may be when a mouse event arrives (event.globalPos())
CursorPoints == { << 0, 0 >>, << 20, 30 >> }

Buttons == {"left", "right"}

\* the overlay receives mouse events while it is shown and not click-through
TakesMouse == pc["gui"] = "idle" /\ overlay # "None" /\ ~click_through

\* mousePressEvent (lines 180-182)
MousePress(button, cur) ==
    /\ TakesMouse
    /\ drag_pos' = IF button = "left" THEN DragAt(cur) ELSE drag_pos
    /\ UNCHANGED << logged_numbers, display_label, overlay, label, style,
                    click_through, win, config, file, pc, ret, text, in_try, key,
                    typed, found, pressed, gui_op, pos, wrote, stale, prefVars >>

\* self.pos() + event.globalPos() - self.drag_pos (line 186)
Dragged(w, cur, d) == << w[1] + cur[1] - d.p[1], w[2] + cur[2] - d.p[2] >>

\* the positions a drag may lead to
OnScreen(q) == q[1] \in 0..ScreenWidth /\ q[2] \in 0..40

\* mouseMoveEvent (lines 184-192) with the buttons held and the cursor at cur
MouseMove(held, cur) ==
    /\ TakesMouse
    /\ IF held = "left" /\ DragTruthy(drag_pos)
       THEN /\ OnScreen(Dragged(win, cur, drag_pos))
            /\ win' = Dragged(win, cur, drag_pos)
            /\ drag_pos' = DragAt(cur)
            /\ config' = WithPosition(config, win')
            /\ \E o \in SaveOutcomes : Saves(config', o)
       ELSE UNCHANGED << win, drag_pos, config, file, wrote >>
    /\ UNCHANGED << logged_numbers, display_label, overlay, label, style,
                    click_through, pc, ret, text, in_try, key, typed, found,
                    pressed, gui_op, pos, stale, prefVars >>

-----------------------------------------------------------------------------
(* The preference store on its own: load, save what was loaded, load again *)

\* the member values a stored record may hold
MemberTokens(k) ==
    CASE k = "overlay_color" -> {Absent, "\"#ffff00\"", "\"#00ff00\""}
      [] k = "overlay_x" -> {Absent, "null", "40"}
      [] k = "overlay_y" -> {Absent, "null", "40"}
      [] k = "overlay_locked" -> {Absent, "true", "false"}
      [] OTHER -> {Absent, "40", "true"}

ObjectDocs ==
    { Doc("object", {}, o) :
        o \in { m \in [AllKeys -> JsonTokens \cup {Absent}] :
                    \A k \in AllKeys : m[k] \in MemberTokens(k) } }

\* config.json: absent, unreadable, not JSON, a JSON null / boolean / number,
\* a JSON array or string mentioning some recognized key names, or an object
FileStates ==
    { Doc(kind, {}, NoMembers) : kind \in {"absent", "unreadable", "malformed", "scalar"} }
    \cup { Doc(kind, items, NoMembers) :
              kind \in {"array", "string"}, items \in SUBSET RecognizedKeys }
    \cup ObjectDocs

NotSaved == [ret |-> "none", outcome |-> "none"]

P_Load ==
    /\ ppc = "start"
    /\ r' = load_config(file).val
    /\ raised' = (raised \/ load_config(file).exc)
    /\ ppc' = "loaded"
    /\ UNCHANGED << appVars, file, r2, saved >>

P_Save ==
    /\ ppc = "loaded"
    /\ \E o \in SaveOutcomes :
          LET s == save_config(file, r, o)
          IN  /\ file' = s.file
              /\ saved' = [ret |-> s.ret, outcome |-> o]
              /\ raised' = (raised \/ s.exc)
    /\ ppc' = "saved"
    /\ UNCHANGED << appVars, r, r2 >>

P_Reload ==
    /\ ppc = "saved"
    /\ r2' = load_config(file).val
    /\ raised' = (raised \/ load_config(file).exc)
    /\ ppc' = "done"
    /\ UNCHANGED << appVars, file, r, saved >>

-----------------------------------------------------------------------------
(* Specifications *)

\* config.json when the application starts
InitFiles == { Doc("absent", {}, NoMembers) }

\* MainWindow.__init__ (lines 195-207) with self.config = cfg
AppInit(cfg) ==
    /\ logged_numbers = <<>>
    /\ display_label = <<>>
    /\ overlay = "None"
    /\ label = NoLabel
    /\ style = NoStyle
    /\ click_through = FALSE
    /\ config = cfg
    /\ pc = [t \in Threads |-> "idle"]
    /\ ret = [t \in Threads |-> "idle"]
    /\ text = [t \in Threads |-> <<>>]
    /\ in_try = FALSE
    /\ key = NoKey
    /\ typed = <<>>
    /\ found = <<>>
    /\ pressed = <<>>
    /\ gui_op = "none"
    /\ pos = "none"
    /\ wrote = "none"
    /\ win = NoWin
    /\ drag_pos = NoDrag
    /\ stale = FALSE

PrefsIdle(at) ==
    /\ r = DEFAULT_CONFIG
    /\ r2 = DEFAULT_CONFIG
    /\ saved = NotSaved
    /\ raised = FALSE
    /\ ppc = at

Init ==
    /\ file \in InitFiles
    /\ AppInit(load_config(file).val)
    /\ PrefsIdle("off")

\* the listener thread, offered the key events in K
ListenerStep(K) ==
    \/ \E k \in K : KeyPress(k)
    \/ L_Try
    \/ L_Append
    \/ L_SendIf
    \/ L_SendJoin
    \/ L_SendType
    \/ Clear("listener")
    \/ UD_Join("listener")
    \/ UD_Label("listener")
    \/ UD_If("listener")
    \/ UD_Call("listener")
    \/ OV_Style("listener")

GuiStep ==
    \/ ClearButton
    \/ ToggleOverlayOff
    \/ ToggleOverlayOn
    \/ ToggleLock
    \/ SCT_Style
    \/ T_Join
    \/ TL_Save
    \/ Clear("gui")
    \/ UD_Join("gui")
    \/ UD_Label("gui")
    \/ UD_If("gui")
    \/ UD_Call("gui")
    \/ OV_Style("gui")

\* the listener thread and the GUI thread interleave freely
Next == ListenerStep(RaceKeyEvents) \/ GuiStep

Spec == Init /\ [][Next]_vars

\* handlers run one at a time: a thread steps only while the other is idle
GuiIdle == pc["gui"] = "idle"

ListenerIdle == pc["listener"] = "idle"

SeqNext ==
    \/ \E k \in KeyEvents : GuiIdle /\ KeyPress(k)
    \/ GuiIdle /\ L_Try
    \/ GuiIdle /\ L_Append
    \/ GuiIdle /\ L_SendIf
    \/ GuiIdle /\ L_SendJoin
    \/ GuiIdle /\ L_SendType
    \/ GuiIdle /\ Clear("listener")
    \/ GuiIdle /\ UD_Join("listener")
    \/ GuiIdle /\ UD_Label("listener")
    \/ GuiIdle /\ UD_If("listener")
    \/ GuiIdle /\ UD_Call("listener")
    \/ GuiIdle /\ OV_Style("listener")
    \/ ListenerIdle /\ ClearButton
    \/ ListenerIdle /\ ToggleOverlayOff
    \/ ListenerIdle /\ ToggleOverlayOn
    \/ ListenerIdle /\ ToggleLock
    \/ ListenerIdle /\ SCT_Style
    \/ ListenerIdle /\ T_Join
    \/ ListenerIdle /\ TL_Save
    \/ ListenerIdle /\ Clear("gui")
    \/ ListenerIdle /\ UD_Join("gui")
    \/ ListenerIdle /\ UD_Label("gui")
    \/ ListenerIdle /\ UD_If("gui")
    \/ ListenerIdle /\ UD_Call("gui")
    \/ ListenerIdle /\ OV_Style("gui")

SpecSeq == Init /\ [][SeqNext]_vars

\* the key events offered while the settings handlers are exercised
SettingsKeyEvents == {KeyCode(105), KeyBackspace}

\* config.json when the application starts: absent, or a record of an
\* earlier run with a member this version does not know
StoredRecord ==
    Doc("object", {},
        [k \in AllKeys |->
            CASE k = "overlay_color" -> "\"#00ff00\""
              [] k = "overlay_x" -> "40"
              [] k = "overlay_y" -> "40"
              [] k = "overlay_locked" -> "true"
              [] OTHER -> "40"])

SettingsFiles == InitFiles \cup {StoredRecord}

SettingsInit ==
    /\ file \in SettingsFiles
    /\ AppInit(load_config(file).val)
    /\ PrefsIdle("off")

\* all handlers, settings included, run one at a time
SettingsNext ==
    \/ \E k \in SettingsKeyEvents :
          /\ GuiIdle
          /\ IsNumpadDigit(k) => Len(pressed) < MaxSettingsDigits
          /\ KeyPress(k)
    \/ GuiIdle /\ L_Try
    \/ GuiIdle /\ L_Append
    \/ GuiIdle /\ Clear("listener")
    \/ GuiIdle /\ UD_Join("listener")
    \/ GuiIdle /\ UD_Label("listener")
    \/ GuiIdle /\ UD_If("listener")
    \/ GuiIdle /\ UD_Call("listener")
    \/ GuiIdle /\ OV_Style("listener")
    \/ ListenerIdle /\ ClearButton
    \/ ListenerIdle /\ ToggleOverlayOff
    \/ ListenerIdle /\ ToggleOverlayOn
    \/ ListenerIdle /\ ToggleLock
    \/ ListenerIdle /\ SCT_Style
    \/ ListenerIdle /\ T_Join
    \/ ListenerIdle /\ TL_Save
    \/ ListenerIdle /\ Clear("gui")
    \/ ListenerIdle /\ UD_Join("gui")
    \/ ListenerIdle /\ UD_Label("gui")
    \/ ListenerIdle /\ UD_If("gui")
    \/ ListenerIdle /\ UD_Call("gui")
    \/ ListenerIdle /\ OV_Style("gui")
    \/ \E c \in Colors, valid \in BOOLEAN : ListenerIdle /\ PickColor(c, valid)
    \/ ListenerIdle /\ ResetDefault
    \/ \E p \in Presets : ListenerIdle /\ SetPositionButton(p)
    \/ ListenerIdle /\ SP_If
    \/ \E b \in Buttons, cur \in CursorPoints : ListenerIdle /\ MousePress(b, cur)
    \/ \E h \in Buttons, cur \in CursorPoints : ListenerIdle /\ MouseMove(h, cur)

SpecSettings == SettingsInit /\ [][SettingsNext]_vars

\* the preference store alone, from every file state
InitPrefs ==
    /\ file \in FileStates
    /\ AppInit(DEFAULT_CONFIG)
    /\ PrefsIdle("start")

NextPrefs == P_Load \/ P_Save \/ P_Reload

SpecPrefs == InitPrefs /\ [][NextPrefs]_vars

-----------------------------------------------------------------------------
(* Properties *)

\* thread t's handler ends in this step
Completes(t) == pc[t] # "idle" /\ pc'[t] = "idle"

Quiescent == \A t \in Threads : pc[t] = "idle"

DigitChars == {"0", "1", "2", "3", "4", "5", "6", "7", "8", "9"}

\* the first n elements of a sequence
FirstN(q, n) == SubSeq(q, 1, IF Len(q) < n THEN Len(q) ELSE n)

\* t is the digits ds separated by single spaces
IsSpaced(t, ds) ==
    /\ Len(t) = IF ds = <<>> THEN 0 ELSE 2 * Len(ds) - 1
    /\ \A i \in 1..Len(ds) : t[2 * i - 1] = ds[i]
    /\ \A i \in 1..(Len(ds) - 1) : t[2 * i] = " "

\* C1: with handlers running one at a time, an Enter that finds the buffer
\* non-empty finds the digits pressed since it was last emptied, in order
\* (the first seven), hands exactly that text to Controller.type once, and
\* ends with the buffer empty; an Enter that ends without having found digits
\* (such as a second Enter right after the first) has typed nothing.
C1_FlushEmitsOnce ==
    [][ /\ (pc["listener"] = "send_if" /\ pc'["listener"] = "send_join")
              => /\ found' = logged_numbers
                 /\ found' = FirstN(pressed, MaxNumbers)
                 /\ typed = <<>>
        /\ (pc["listener"] = "send_type" /\ pc'["listener"] # "send_type")
              => typed' = <<found>>
        /\ (Completes("listener") /\ key = KeyEnter /\ found # <<>>)
              => typed = <<found>> /\ logged_numbers' = <<>>
        /\ (Completes("listener") /\ key = KeyEnter /\ found = <<>>)
              => typed = <<>> /\ logged_numbers' = <<>>
      ]_vars

\* C1 witness: the flush of "9 0" has typed "90" once and emptied the buffer
C1_Witness ==
    /\ key = KeyEnter
    /\ pc["listener"] = "ud_join"
    /\ typed = << <<"9", "0">> >>
    /\ found = <<"9", "0">>
    /\ logged_numbers = <<>>

\* C2: in every state of every interleaving of the listener with the Clear
\* button, the overlay toggle and the lock toggle, the buffer holds at most
\* seven elements, each a digit character, and the handler of a digit key is
\* never about to append to a full buffer.
C2_BufferBounded ==
    /\ Len(logged_numbers) \in 0..MaxNumbers
    /\ \A i \in 1..Len(logged_numbers) : logged_numbers[i] \in DigitChars
    /\ pc["listener"] = "append" => Len(logged_numbers) < MaxNumbers

\* C2 witness: an eighth digit has arrived at a full buffer and was dropped,
\* while the GUI thread is inside a handler
C2_Witness ==
    /\ Len(logged_numbers) = MaxNumbers
    /\ Len(pressed) > MaxNumbers
    /\ pc["listener"] = "idle"
    /\ pc["gui"] # "idle"

\* C3: no step of the listener thread changes the display label, the overlay
\* label or the overlay style (rendering happens on the GUI thread only).
C3_RenderingOnGuiThread ==
    [][ pc'["listener"] # pc["listener"]
          => UNCHANGED << display_label, label, style >> ]_vars

\* C4: with handlers running one at a time, whenever no handler is running
\* the buffer holds the first seven of the digits pressed since it was last
\* empty, in order, and the display shows them separated by single spaces;
\* an eighth and later digit changes neither.
C4_AppendsRendered ==
    Quiescent =>
        /\ logged_numbers = FirstN(pressed, MaxNumbers)
        /\ IsSpaced(display_label, FirstN(pressed, MaxNumbers))

\* C4 witness: more than seven digits, not all the same, were pressed in a row
C4_Witness ==
    /\ Quiescent
    /\ Len(pressed) > MaxNumbers
    /\ pressed[1] # pressed[2]
    /\ Len(display_label) = 2 * MaxNumbers - 1

\* C5: under any interleaving, an Enter whose send_numbers finds the buffer
\* empty ends there: nothing was or is handed to Controller.type and the
\* buffer stays empty.
C5_EmptyFlushSilent ==
    [][ (pc["listener"] = "send_if" /\ pc'["listener"] # "send_if"
            /\ logged_numbers = <<>>)
          => /\ pc'["listener"] = "idle"
             /\ typed = <<>>
             /\ typed' = <<>>
             /\ logged_numbers' = <<>> ]_vars

\* C5 witness: Enter's send_numbers is at its test with the buffer empty
C5_Witness ==
    /\ key = KeyEnter
    /\ pc["listener"] = "send_if"
    /\ logged_numbers = <<>>
    /\ typed = <<>>

\* thread t is running clear_numbers for Backspace or the Clear button
IsClearHandler(t) ==
    IF t = "listener" THEN key = KeyBackspace ELSE gui_op = "clear_numbers"

\* what the overlay shows for an empty buffer
EmptyOverlayLabel == IF IsLocked(config) THEN <<>> ELSE HintText

\* C6: with handlers running one at a time, the clear of Backspace and of the
\* Clear button empties the buffer whatever it held and types nothing, and
\* when the handler ends the buffer, the display and the overlay label are
\* those of an empty buffer: the state after a clear does not depend on the
\* state before, so a second clear changes nothing.
C6_ClearEmpties ==
    [][ \A t \in Threads :
          /\ (pc[t] = "clear" /\ pc'[t] # "clear")
                => logged_numbers' = <<>> /\ typed' = typed
          /\ (Completes(t) /\ IsClearHandler(t))
                => /\ logged_numbers' = <<>>
                   /\ display_label' = <<>>
                   /\ typed = <<>>
                   /\ overlay # "None" => label' = EmptyOverlayLabel
      ]_vars

\* C6 witness: the Clear button has emptied a full buffer (the display still
\* shows its seven digits)
C6_Witness ==
    /\ gui_op = "clear_numbers"
    /\ pc["gui"] = "ud_join"
    /\ logged_numbers = <<>>
    /\ Len(display_label) = 2 * MaxNumbers - 1

\* C7: with handlers running one at a time, the handler of a key that is not
\* a numpad digit, Enter or Backspace ends at once, leaving the buffer and
\* the display as they were and typing nothing, and the listener waits for
\* the next key.
C7_OtherKeysIgnored ==
    [][ (key \in OtherKeys /\ pc'["listener"] # pc["listener"])
          => /\ pc["listener"] = "try"
             /\ pc'["listener"] = "idle"
             /\ logged_numbers' = logged_numbers
             /\ display_label' = display_label
             /\ typed = <<>>
             /\ typed' = <<>> ]_vars

\* C7 witness: a top-row digit key is being handled while the buffer holds digits
C7_Witness ==
    /\ key = KeyCode(57)
    /\ pc["listener"] = "try"
    /\ logged_numbers # <<>>

\* the default record, written out
IsDefaultRecord(v) ==
    /\ v.kind = "object"
    /\ v.obj["overlay_color"] = "#ffff00"
    /\ v.obj["overlay_x"] = "None"
    /\ v.obj["overlay_y"] = "None"
    /\ v.obj["overlay_locked"] = "False"
    /\ \A k \in ExtraKeys : v.obj[k] = Absent

\* C8: load_config raises nothing and returns exactly the default record
\* whenever config.json is missing, unreadable, or anything but a JSON object.
C8_LoadDefaultsOnInvalid ==
    (ppc = "loaded" /\ file.kind # "object") => (IsDefaultRecord(r) /\ ~raised)

\* the Python value a stored member value loads as
LoadedValue(tok) ==
    CASE tok = "null" -> "None"
      [] tok = "true" -> "True"
      [] tok = "false" -> "False"
      [] tok = "40" -> "int 40"
      [] tok = "\"#ffff00\"" -> "#ffff00"
      [] tok = "\"#00ff00\"" -> "#00ff00"

OnlyLockedTrue == Doc("object", {}, [NoMembers EXCEPT !["overlay_locked"] = "true"])

\* C9: for every stored object, load_config returns an object in which every
\* stored member keeps its value, every missing recognized key has its
\* default, no other key appears, and so all four recognized keys are
\* present; {"overlay_locked": true} loads as that merged with the defaults.
C9_LoadBackfills ==
    (ppc = "loaded" /\ file.kind = "object") =>
        /\ ~raised
        /\ r.kind = "object"
        /\ \A k \in AllKeys :
              IF file.obj[k] # Absent THEN r.obj[k] = LoadedValue(file.obj[k])
              ELSE IF k \in RecognizedKeys THEN r.obj[k] = DEFAULT_CONFIG.obj[k]
              ELSE r.obj[k] = Absent
        /\ \A k \in RecognizedKeys : r.obj[k] # Absent
        /\ file = OnlyLockedTrue =>
              /\ r.obj["overlay_locked"] = "True"
              /\ r.obj["overlay_color"] = "#ffff00"
              /\ r.obj["overlay_x"] = "None"
              /\ r.obj["overlay_y"] = "None"

\* C9 witness: a file holding a non-default colour, an extra key and no lock
\* flag was loaded
C9_Witness ==
    /\ ppc = "loaded"
    /\ file.kind = "object"
    /\ file.obj["overlay_color"] = "\"#00ff00\""
    /\ file.obj["extra"] = "40"
    /\ file.obj["overlay_locked"] = Absent
    /\ r.obj["overlay_color"] = "#00ff00"
    /\ r.obj["extra"] = "int 40"
    /\ r.obj["overlay_locked"] = "False"

\* save_config returned True for a completed write and False otherwise, and
\* nothing was raised
SaveReported ==
    /\ ~raised
    /\ saved.ret \in {"True", "False"}
    /\ saved.ret = "True" <=> saved.outcome = "ok"

\* C10 as claimed: from every file state, r = load(); save(r); load() returns
\* a value equal to r, and save reports success as true and failure as false
\* without raising.
C10_RoundTrip ==
    ppc = "done" => (r2 = r /\ SaveReported)

\* C10 as amended: the same, except when the write fails after open() has
\* truncated the file.
C10_RoundTripUnlessTruncated ==
    ppc = "done" =>
        /\ SaveReported
        /\ saved.outcome # "write_fails" => r2 = r

\* C10 witness: a record with non-default members was loaded, saved and
\* loaded again
C10_Witness ==
    /\ ppc = "done"
    /\ saved.ret = "True"
    /\ r.obj["overlay_locked"] = "True"
    /\ r.obj["overlay_x"] = "int 40"
    /\ r.obj["extra"] = "True"
    /\ r2 = r

\* the stored lock flag is the Python value True
LockedFlag == config.obj["overlay_locked"] = "True"

\* C11: whenever no handler is running and the last save_config of a handler
\* (colour pick, colour reset, lock toggle, drag move, position preset)
\* completed its write, config.json holds exactly the in-memory preference
\* record; so no handler changes the record without writing it.
C11_SettingsPersisted ==
    (Quiescent /\ wrote = "ok") =>
        /\ file.kind = "object"
        /\ \A k \in AllKeys :
              file.obj[k] = (CASE config.obj[k] = Absent -> Absent
                               [] config.obj[k] = "None" -> "null"
                               [] config.obj[k] = "True" -> "true"
                               [] config.obj[k] = "False" -> "false"
                               [] config.obj[k] = "#ffff00" -> "\"#ffff00\""
                               [] config.obj[k] = "#00ff00" -> "\"#00ff00\""
                               [] config.obj[k] = "int 0" -> "0"
                               [] config.obj[k] = "int 10" -> "10"
                               [] config.obj[k] = "int 40" -> "40"
                               [] config.obj[k] = "int 20" -> "20"
                               [] config.obj[k] = "int 30" -> "30"
                               [] config.obj[k] = "int 700" -> "700"
                               [] config.obj[k] = "int 720" -> "720"
                               [] config.obj[k] = "int 1400" -> "1400"
                               [] config.obj[k] = "int 1420" -> "1420")

\* C11 witness: after a colour pick, a lock toggle and a drag to the screen's
\* top-left corner, the last write succeeded and the file holds all three
C11_Witness ==
    /\ Quiescent
    /\ wrote = "ok"
    /\ config.obj["overlay_color"] = "#00ff00"
    /\ config.obj["overlay_locked"] = "True"
    /\ config.obj["overlay_x"] = "int 0"
    /\ file.obj["overlay_color"] = "\"#00ff00\""
    /\ file.obj["overlay_locked"] = "true"
    /\ file.obj["overlay_x"] = "0"

\* what the overlay shows for the digits of the buffer
ShowsDigits == label # <<>> /\ IsSpaced(label, logged_numbers)

Decorated == style.border = "dashed" /\ style.bg = "tinted"

Undecorated == style.border = "none" /\ style.bg = "transparent"

\* C12: whenever the overlay exists and no handler is running, on either
\* thread, its visual mode is given by (buffer non-empty, overlay_locked):
\* digits in the chosen colour without decoration when locked, digits with
\* dashed border and tinted background when unlocked, no text and a
\* transparent style when empty and locked, the positioning hint with border
\* and tint when empty and unlocked.
C12_OverlayMode ==
    (Quiescent /\ overlay # "None") =>
        /\ (logged_numbers # <<>> /\ LockedFlag) =>
              /\ ShowsDigits /\ Undecorated
              /\ style.color = config.obj["overlay_color"] /\ style.font = "36px"
        /\ (logged_numbers # <<>> /\ ~LockedFlag) =>
              /\ ShowsDigits /\ Decorated
              /\ style.color = config.obj["overlay_color"] /\ style.font = "36px"
        /\ (logged_numbers = <<>> /\ LockedFlag) =>
              /\ label = <<>> /\ Undecorated
              /\ style.color = "transparent"
        /\ (logged_numbers = <<>> /\ ~LockedFlag) =>
              /\ label = HintText /\ Decorated
              /\ style.color = "#ff4757" /\ style.font = "16px"

\* C13: under every interleaving, whenever the overlay exists and the GUI
\* thread runs no handler the overlay is click-through exactly if
\* overlay_locked is true (also for an overlay opened after a toggle made
\* without one); entering toggle_lock negates overlay_locked, and no other
\* step changes it.
C13_ClickThroughFollowsLock ==
    /\ [](pc["gui"] = "idle" /\ overlay # "None" => (click_through <=> LockedFlag))
    /\ [][ /\ (gui_op # "toggle_lock" /\ gui_op' = "toggle_lock")
                 => /\ config.obj["overlay_locked"] \in {"True", "False"}
                    /\ config'.obj["overlay_locked"] \in {"True", "False"}
                    /\ config'.obj["overlay_locked"] # config.obj["overlay_locked"]
           /\ ~(gui_op # "toggle_lock" /\ gui_op' = "toggle_lock")
                 => config'.obj["overlay_locked"] = config.obj["overlay_locked"]
         ]_vars

\* C13 witness: an overlay is being opened click-through: the lock was
\* toggled on before, and the listener is in the middle of a key event
C13_Witness ==
    /\ gui_op = "toggle_overlay"
    /\ pc["gui"] = "sct_style"
    /\ overlay # "None"
    /\ click_through
    /\ LockedFlag
    /\ pc["listener"] # "idle"

\* C14: whenever no handler is running, on either thread, the main display
\* shows the buffer's digits joined by single spaces, and an existing overlay
\* over a non-empty buffer shows the same text (so an overlay opened over
\* digits shows them).
C14_BufferIsShown ==
    Quiescent =>
        /\ IsSpaced(display_label, logged_numbers)
        /\ (overlay # "None" /\ logged_numbers # <<>>) => label = display_label

\* the record with its position replaced by int x, int y
PositionIs(cfg, x, y) ==
    /\ cfg.obj["overlay_x"] = x
    /\ cfg.obj["overlay_y"] = y

\* C15: a set_position that finds no overlay ends leaving the preference
\* record, the file, the buffer and both displays as they were; one that
\* finds the overlay stores x = 20 (left), 1420 (right) or 720 (middle) and
\* y = 30 (on a screen 1920 wide), leaves the record's other members and the
\* buffer alone, and attempts the save.
C15_PresetOnlyWithOverlay ==
    [][ (pc["gui"] = "sp_if" /\ pc'["gui"] # "sp_if") =>
            /\ logged_numbers' = logged_numbers
            /\ display_label' = display_label
            /\ label' = label
            /\ \A k \in AllKeys \ {"overlay_x", "overlay_y"} :
                  config'.obj[k] = config.obj[k]
            /\ IF overlay = "None"
               THEN /\ config' = config
                    /\ file' = file
                    /\ wrote' = wrote
                    /\ overlay' = "None"
               ELSE /\ pos = "left" => PositionIs(config', "int 20", "int 30")
                    /\ pos = "right" => PositionIs(config', "int 1420", "int 30")
                    /\ pos = "mid" => PositionIs(config', "int 720", "int 30")
                    /\ wrote' = "ok" =>
                          /\ file'.obj["overlay_x"] \in {"20", "720", "1420"}
                          /\ file'.obj["overlay_y"] = "30"
      ]_vars

\* C15 witness: the left preset was requested with no overlay, a buffer
\* holding digits and a record that holds the right preset's position
C15_Witness ==
    /\ pc["gui"] = "sp_if"
    /\ pos = "left"
    /\ overlay = "None"
    /\ logged_numbers # <<>>
    /\ config.obj["overlay_x"] = "int 1420"
    /\ file.obj["overlay_x"] = "1420"

====
